---- MODULE Spec2Model ----
(***************************************************************************)
(* Model of environment/simpleTrading.py, class SimpleTrading.             *)
(*                                                                         *)
(* The object is the record `self`; each method is an operator from the    *)
(* object (and its arguments) to the object after the call.  The callers   *)
(* of the object are the actions Step, TryToBuy and TryToSell.             *)
(*                                                                         *)
(* Numbers.  The floats of the program are exact numbers here.  Prices,    *)
(* gains and rewards are integers counted in ticks of 0.01 (docstring,     *)
(* line 18); actual_position_time counts the increments of 0.01 of line    *)
(* 144; p and the value of np.random.rand() are counted in units of        *)
(* 1/PDen, so rand() ranges over 0..PDen-1 (the interval [0,1)), p = 0 is  *)
(* 0 and p = 1 is PDen; an entry of ema is the dyadic rational             *)
(* num / 2^exp and an entry of ema_alpha the k of alpha = 2^-k.            *)
(***************************************************************************)
EXTENDS Integers, Sequences, FiniteSets, TLC

\* ---- bounds of the model ----
MaxPrice == 1      \* a tick's price is -MaxPrice or MaxPrice
MaxSteps == 4      \* ticks of the series after the one the constructor stops at
MaxTries == 2      \* fill-resolution calls between two steps
MaxOver  == 1      \* step calls made after the one that failed first
PDen     == 2      \* resolution of p and of rand()

\* ---- constants of the program ----
WarmUp   == 100    \* xrange(0,100) of the constructor
FirstT   == 1      \* self.t = 1
Neutral  == 0
Long     == 1
Short    == 2
RealFee  == 2      \* fee=0.2, in tenths
VFeeConst == 1     \* v_fee_const=0.01
VFeeRel  == 0      \* v_fee_rel=0

Prices   == {0 - MaxPrice, MaxPrice}
Actions  == {Neutral, Long, Short}
Rands    == 0..(PDen - 1)
Probs    == {0 - 1, 0, PDen}         \* p = -1/PDen, p = 0 and p = 1
SigLen   == WarmUp + 2 + MaxSteps
DefaultAlpha == <<0, 1, 2, 3, 4>>   \* (1., 0.5, 0.25, 0.125, 0.0625)

VARIABLES
    self,     \* the SimpleTrading object: its fields
    last,     \* the last call made on it and what the call gave back
    tries,    \* fill-resolution calls made since the last step
    entry,    \* the fill of the order that opened the current position
    fills,    \* the prices of the fills executed so far, summed by side
    closed,   \* close_position has run since the last step that returned
    quiet     \* a second object, built alike, stepped alike with Neutral only

vars == <<self, last, tries, entry, fills, closed, quiet>>

\* ---- arithmetic on dyadic rationals num / 2^exp ----
RECURSIVE Pow2(_)
Pow2(n) == IF n = 0 THEN 1 ELSE 2 * Pow2(n - 1)

RECURSIVE Norm(_)
Norm(q) == IF q.num = 0 THEN [num |-> 0, exp |-> 0]
           ELSE IF q.exp > 0 /\ q.num % 2 = 0
                THEN Norm([num |-> q.num \div 2, exp |-> q.exp - 1])
                ELSE q

\* (1 - 2^-k) * q + 2^-k * d
Smooth(q, k, d) ==
    Norm([num |-> (Pow2(k) - 1) * q.num + d * Pow2(q.exp), exp |-> q.exp + k])

\* ---- methods of SimpleTrading ----
InRange(s, i) == i >= 0 /\ i < Len(s.signal)

\* signal is a numpy array indexed from 0
At(s, i) == s.signal[i + 1]

\* the entries i.. of (1 - alpha) * ema + alpha * d
RECURSIVE SmoothFrom(_, _, _, _)
SmoothFrom(ema, alpha, d, i) ==
    IF i > Len(ema) THEN <<>>
    ELSE <<Smooth(ema[i], alpha[i], d)>> \o SmoothFrom(ema, alpha, d, i + 1)

\* ema_update that counts the position into the price difference
ema_update_with_position(s) ==
    [s EXCEPT !.ema = SmoothFrom(s.ema, s.ema_alpha,
                          At(s, s.t) - At(s, s.t - 1) + s.actual_position, 1)]

ema_update(s) ==
    [s EXCEPT !.ema = SmoothFrom(s.ema, s.ema_alpha, At(s, s.t) - At(s, s.t - 1), 1)]

place_buy(s, price) == [s EXCEPT !.open_buy = TRUE, !.buy_price = price]

place_sell(s, price) == [s EXCEPT !.open_sell = TRUE, !.sell_price = price]

close_position(s) ==
    [s EXCEPT !.actual_position_time = 0,
              !.last_position_price = 0,
              !.reward = s.partial_gain,
              !.partial_gain = 0,
              !.actual_position = Neutral]

\* buy booking the price with the sign of sell
buy_adds_price(s) ==
    [s EXCEPT !.open_buy = FALSE,
              !.buy_price = 0,
              !.gain = @ + At(s, s.t),
              !.partial_gain = @ - At(s, s.t)]

buy(s) ==
    [s EXCEPT !.open_buy = FALSE,
              !.buy_price = 0,
              !.gain = @ - At(s, s.t),
              !.partial_gain = @ - At(s, s.t)]

sell(s) ==
    [s EXCEPT !.open_sell = FALSE,
              !.sell_price = 0,
              !.gain = @ + At(s, s.t),
              !.partial_gain = @ + At(s, s.t)]

\* cancel_sell without line 199
cancel_sell_keeps_position(s) == [s EXCEPT !.open_sell = FALSE, !.sell_price = 0]

cancel_sell(s) ==
    [s EXCEPT !.actual_position = Neutral, !.open_sell = FALSE, !.sell_price = 0]

cancel_buy(s) ==
    [s EXCEPT !.actual_position = Neutral, !.open_buy = FALSE, !.buy_price = 0]

\* the price test of try_to_buy turned round
buy_eligible_reversed(s) == At(s, s.t) >= s.buy_price

\* line 159: the price test of try_to_buy
buy_eligible(s) == At(s, s.t) <= s.buy_price

\* line 167: the price test of try_to_sell
sell_eligible(s) == At(s, s.t) >= s.sell_price

\* lines 160, 168: the trial, rnd being the value of np.random.rand()
trial(s, rnd) == rnd <= s.p

buy_fills(s, rnd) == buy_eligible(s) /\ trial(s, rnd)

sell_fills(s, rnd) == sell_eligible(s) /\ trial(s, rnd)

try_to_buy(s, rnd) ==
    IF buy_fills(s, rnd)
    THEN IF buy(s).actual_position = Short
         THEN close_position(buy(s))
         ELSE buy(s)
    ELSE s

try_to_sell(s, rnd) ==
    IF sell_fills(s, rnd)
    THEN IF sell(s).actual_position = Long
         THEN close_position(sell(s))
         ELSE sell(s)
    ELSE s

\* lines 117-131: reconcile the action with an open position
step_close(s, action) ==
    IF s.actual_position = Long
    THEN IF action # Long
         THEN IF ~s.open_buy THEN place_sell(s, At(s, s.t)) ELSE cancel_sell(s)
         ELSE s
    ELSE IF s.actual_position = Short
         THEN IF action # Short
              THEN IF ~s.open_sell THEN place_buy(s, At(s, s.t)) ELSE cancel_buy(s)
              ELSE s
         ELSE s

\* lines 133-144: open a position when neutral, else count the time
step_open(s, action) ==
    IF s.actual_position = Neutral
    THEN LET s1 == IF action = Long
                   THEN [place_buy(s, At(s, s.t)) EXCEPT
                            !.actual_position = Long,
                            !.last_position_price = At(s, s.t)]
                   ELSE s
         IN  IF action = Short
             THEN [place_sell(s1, At(s1, s1.t)) EXCEPT
                      !.actual_position = Short,
                      !.last_position_price = At(s1, s1.t)]
             ELSE s1
    ELSE [s EXCEPT !.actual_position_time = @ + 1]

\* step without line 147
step_keeps_reward(s, action) ==
    LET s1 == [s EXCEPT !.t = @ + 1]
    IN  IF ~InRange(s1, s1.t)
        THEN [self |-> s1, r |-> 0, err |-> "IndexError"]
        ELSE LET s2 == step_open(step_close(ema_update(s1), action), action)
             IN  [self |-> s2, r |-> s2.reward, err |-> "none"]

\* the result of a call: the object after it, the reward returned, the error
step(s, action) ==
    LET s1 == [s EXCEPT !.t = @ + 1]
    IN  IF ~InRange(s1, s1.t)
        THEN [self |-> s1, r |-> 0, err |-> "IndexError"]
        ELSE LET s2 == step_open(step_close(ema_update(s1), action), action)
             IN  [self |-> [s2 EXCEPT !.reward = 0], r |-> s2.reward, err |-> "none"]

\* lines 102-104, n ticks of them; the ticks are run in two halves, each of
\* which advances t by its length
RECURSIVE warm_up(_, _)
warm_up(s, n) ==
    IF n = 0 THEN s
    ELSE IF n = 1 THEN [ema_update(s) EXCEPT !.t = @ + 1]
    ELSE LET half == warm_up(s, n \div 2)
         IN  IF half.t = s.t + (n \div 2)
             THEN warm_up(half, n - (n \div 2))
             ELSE half

init(signal, ema_alpha, p, fee, v_fee_const, v_fee_rel) ==
    warm_up([signal |-> signal,
             ema_alpha |-> ema_alpha,
             p |-> p,
             fee |-> fee,
             v_fee_const |-> v_fee_const,
             v_fee_rel |-> v_fee_rel,
             t |-> FirstT,
             ema |-> [i \in DOMAIN ema_alpha |->
                        [num |-> signal[2] - signal[1], exp |-> 0]],
             last_position_price |-> 0,
             actual_position |-> Neutral,
             actual_position_time |-> 0,
             gain |-> 0,
             sell_price |-> 0,
             buy_price |-> 0,
             partial_gain |-> 0,
             reward |-> 0,
             open_sell |-> FALSE,
             open_buy |-> FALSE], WarmUp)

\* ---- the callers ----
\* price series: flat at 0 through the warm-up, then any prices
Signals ==
    { [i \in 1..SigLen |-> IF i <= WarmUp + 1 THEN 0 ELSE tail[i]] :
        tail \in [(WarmUp + 2)..SigLen -> Prices] }

NoEntry == [filled |-> FALSE, price |-> 0]

\* the last call made on the object: the method, the action passed to step,
\* the value np.random.rand() gave to try_to_buy or try_to_sell, the reward
\* step returned and the error raised
Call(op, action, rnd, r, err) ==
    [op |-> op, action |-> action, rnd |-> rnd, r |-> r, err |-> err]

\* step reads its action at line 118, after the ema_update that raises when
\* the series is exhausted
Read(returned, action) == IF returned THEN action ELSE Neutral

\* np.random.rand() is called only after the price test has passed
NotDrawn == 0 - 1
Drawn(eligible, rnd) == IF eligible THEN rnd ELSE NotDrawn

\* the sums of the fill prices after a call of s that runs buy() (sell()) when
\* filled is true
Bought(s, filled) ==
    IF filled THEN [fills EXCEPT !.bought = @ + At(s, s.t)] ELSE fills

Sold(s, filled) ==
    IF filled THEN [fills EXCEPT !.sold = @ + At(s, s.t)] ELSE fills

\* a fill-resolution call changes the position only through close_position
Closes(pre, post) ==
    pre.actual_position # Neutral /\ post.actual_position = Neutral

\* the fill of the order that opened the current position
EntryAfter(pre, post, filled) ==
    IF post.actual_position = Neutral THEN NoEntry
    ELSE IF filled THEN [filled |-> TRUE, price |-> At(pre, pre.t)]
    ELSE entry

Init ==
    /\ \E sig \in Signals, p \in Probs :
          self = init(sig, DefaultAlpha, p, RealFee, VFeeConst, VFeeRel)
    /\ last = Call("init", Neutral, NotDrawn, 0, "none")
    /\ tries = 0
    /\ entry = NoEntry
    /\ fills = [bought |-> 0, sold |-> 0]
    /\ closed = FALSE
    /\ quiet = self

Step(action) ==
    /\ self.t < SigLen + MaxOver
    /\ LET res == step(self, action)
       IN  /\ self' = res.self
           /\ last' = Call("step", Read(res.err = "none", action), NotDrawn, res.r, res.err)
           /\ entry' = IF res.self.actual_position # self.actual_position
                       THEN NoEntry ELSE entry
           /\ closed' = IF res.err = "none" THEN FALSE ELSE closed
    /\ tries' = 0
    /\ fills' = fills
    /\ quiet' = step(quiet, Neutral).self

\* the callers resolve fills for the ticks of the series: once step has run
\* past the end, signal[self.t] of try_to_buy and try_to_sell raises too
TryToBuy(rnd) ==
    /\ tries < MaxTries
    /\ InRange(self, self.t)
    /\ self' = try_to_buy(self, rnd)
    /\ last' = Call("try_to_buy", Neutral, Drawn(buy_eligible(self), rnd), 0, "none")
    /\ entry' = EntryAfter(self, self', buy_fills(self, rnd) /\ self.open_buy
                                        /\ self.actual_position = Long)
    /\ fills' = Bought(self, buy_fills(self, rnd))
    /\ closed' = (closed \/ Closes(self, self'))
    /\ tries' = tries + 1
    /\ quiet' = quiet

TryToSell(rnd) ==
    /\ tries < MaxTries
    /\ InRange(self, self.t)
    /\ self' = try_to_sell(self, rnd)
    /\ last' = Call("try_to_sell", Neutral, Drawn(sell_eligible(self), rnd), 0, "none")
    /\ entry' = EntryAfter(self, self', sell_fills(self, rnd) /\ self.open_sell
                                        /\ self.actual_position = Short)
    /\ fills' = Sold(self, sell_fills(self, rnd))
    /\ closed' = (closed \/ Closes(self, self'))
    /\ tries' = tries + 1
    /\ quiet' = quiet

Next ==
    \/ \E action \in Actions : Step(action)
    \/ \E rnd \in Rands : TryToBuy(rnd)
    \/ \E rnd \in Rands : TryToSell(rnd)

Spec == Init /\ [][Next]_vars

\* a step call that returned
Stepped == last.op = "step" /\ last.err = "none"

\* ---- the order book ----

\* C1: in every reachable state at most one pending order is active: open_buy
\* and open_sell are never both true.
AtMostOnePendingOrder == ~(self.open_buy /\ self.open_sell)

\* C2: after construction and after every step call the open duration is 0 if
\* and only if the position is Neutral.
DurationZeroIffNeutral ==
    (last.op = "init" \/ Stepped) =>
        ((self.actual_position_time = 0) <=> (self.actual_position = Neutral))

\* C3: a step with a different action, taken while the opening order of the
\* Long (Short) position is still pending, cancels that buy (sell) order: the
\* order is inactive when the step returns.
OpeningOrderCancelled ==
    [][ (last'.op = "step" /\ last'.err = "none") =>
          /\ (self.actual_position = Long /\ self.open_buy /\ last'.action # Long)
                => ~self'.open_buy
          /\ (self.actual_position = Short /\ self.open_sell /\ last'.action # Short)
                => ~self'.open_sell ]_vars

\* ---- scenario B ----
NoActiveOrder(s) == ~s.open_buy /\ ~s.open_sell

\* step(Long) then step(Neutral) from s, both returning: the position is
\* Neutral, both rewards are 0 and the gains are those of s
LongThenNeutral(s) ==
    LET first  == step(s, Long)
        second == step(first.self, Neutral)
    IN  (first.err = "none" /\ second.err = "none") =>
            /\ second.self.actual_position = Neutral
            /\ first.r = 0
            /\ second.r = 0
            /\ second.self.gain = s.gain
            /\ second.self.partial_gain = s.partial_gain

\* C4 as stated: from any Neutral state with no active order, step(Long)
\* followed at once by step(Neutral) ends Neutral, returns reward 0 twice and
\* leaves total gain and partial gain as they were.
ScenarioBFromAnyNeutral ==
    (self.actual_position = Neutral /\ NoActiveOrder(self)) => LongThenNeutral(self)

\* C4: from a Neutral state with no active order and no reward of an earlier
\* close still to be returned, step(Long) followed at once by step(Neutral)
\* ends Neutral, returns reward 0 twice and leaves total gain and partial gain
\* as they were.
ScenarioB ==
    (self.actual_position = Neutral /\ NoActiveOrder(self) /\ self.reward = 0)
        => LongThenNeutral(self)

\* the state two steps after construction, Long requested and then Neutral
ScenarioBReached ==
    /\ Stepped /\ last.action = Neutral /\ last.r = 0
    /\ self.t = WarmUp + 3
    /\ self.actual_position = Neutral
    /\ self.open_buy /\ ~self.open_sell
    /\ self.gain = 0 /\ self.partial_gain = 0

\* ---- fills ----
Tried == last.op \in {"try_to_buy", "try_to_sell"} /\ last.err = "none"

\* C5: with fill probability 1, the sell fill that closes a Long opened by a
\* buy fill records the reward (sell fill price - buy fill price) minus the
\* virtual fees, which is less than the fee-free reward when a fee is set.
ScenarioCRewardNetOfFees ==
    [][ ( /\ last'.op = "try_to_sell" /\ last'.err = "none"
          /\ self.p = PDen
          /\ self.actual_position = Long /\ entry.filled /\ self.open_sell
          /\ self'.actual_position = Neutral )
        => LET spread == At(self, self.t) - entry.price
           IN  /\ self.v_fee_rel = 0 => self'.reward = spread - self.v_fee_const
               /\ (self.v_fee_const > 0 \/ self.v_fee_rel > 0) => self'.reward < spread
      ]_vars

\* C6: with fill probability 1, when step returns no order is left active that
\* the price of the tick it advanced to makes eligible.
StepResolvesOrders ==
    (Stepped /\ self.p = PDen) =>
        /\ ~(self.open_buy /\ At(self, self.t) <= self.buy_price)
        /\ ~(self.open_sell /\ At(self, self.t) >= self.sell_price)

\* C7: with fill probability 0 a fill-resolution call on an active order
\* fills nothing, whatever np.random.rand() returns: the order stays active,
\* and total gain and the position are unchanged.
NoFillAtProbabilityZero ==
    [][ ( /\ self.p = 0
          /\ \/ last'.op = "try_to_buy" /\ self.open_buy
             \/ last'.op = "try_to_sell" /\ self.open_sell )
        => /\ self'.open_buy = self.open_buy
           /\ self'.open_sell = self.open_sell
           /\ self'.gain = self.gain
           /\ self'.actual_position = self.actual_position ]_vars

\* the trial was held and lost
LostTrial(rnd, p) == rnd # NotDrawn /\ rnd > p

\* C8: an active buy order fills only at a price <= its limit and an active
\* sell order only at a price >= its limit; the fill deactivates the order and
\* books the price of the current tick; an order that is not eligible, or that
\* loses the trial, stays as it was.
FillRule ==
    [][ /\ (last'.op = "try_to_buy" /\ last'.err = "none" /\ self.open_buy) =>
              /\ ~self'.open_buy => At(self, self.t) <= self.buy_price
              /\ IF At(self, self.t) > self.buy_price \/ LostTrial(last'.rnd, self.p)
                 THEN /\ self'.open_buy /\ self'.buy_price = self.buy_price
                      /\ self'.gain = self.gain
                 ELSE /\ ~self'.open_buy
                      /\ self'.gain = self.gain - At(self, self.t)
        /\ (last'.op = "try_to_sell" /\ last'.err = "none" /\ self.open_sell) =>
              /\ ~self'.open_sell => At(self, self.t) >= self.sell_price
              /\ IF At(self, self.t) < self.sell_price \/ LostTrial(last'.rnd, self.p)
                 THEN /\ self'.open_sell /\ self'.sell_price = self.sell_price
                      /\ self'.gain = self.gain
                 ELSE /\ ~self'.open_sell
                      /\ self'.gain = self.gain + At(self, self.t)
      ]_vars

\* the opening buy order of a Long has just filled
BuyOrderFilled ==
    Tried /\ last.op = "try_to_buy" /\ self.p = PDen /\ entry.filled /\ ~self.open_buy

\* C9: a step that places an order while the closing order it placed on an
\* earlier tick is still active raises an error and leaves that order's side
\* and limit price as they were.
PlaceOnActiveOrderRejected ==
    [][ (last'.op = "step" /\ self.t < Len(self.signal) - 1) =>
          /\ ( /\ self.actual_position = Long /\ last'.action # Long
                /\ ~self.open_buy /\ self.open_sell )
                => /\ last'.err # "none"
                   /\ self'.open_sell /\ self'.sell_price = self.sell_price
          /\ ( /\ self.actual_position = Short /\ last'.action # Short
                /\ ~self.open_sell /\ self.open_buy )
                => /\ last'.err # "none"
                   /\ self'.open_buy /\ self'.buy_price = self.buy_price ]_vars

\* C10: cancelling is idempotent, and cancelling a side that has no active
\* order leaves the whole object as it is.
CancelInactiveIsNoOp ==
    /\ ~self.open_buy => cancel_buy(self) = self
    /\ ~self.open_sell => cancel_sell(self) = self
    /\ cancel_buy(cancel_buy(self)) = cancel_buy(self)
    /\ cancel_sell(cancel_sell(self)) = cancel_sell(self)

\* ---- the position ----

\* C11: no single step call takes the position from Long to Short or from
\* Short to Long, whatever the action.
OneTransitionPerStep ==
    [][ last'.op = "step" =>
          /\ ~(self.actual_position = Long /\ self'.actual_position = Short)
          /\ ~(self.actual_position = Short /\ self'.actual_position = Long) ]_vars

\* ---- the accounts ----

PartialGainZeroAfterClose ==
    [][ /\ (last'.op = "step" /\ last'.err = "none" /\ closed)
              => self'.partial_gain = 0
        /\ (last'.op = "try_to_sell" /\ Closes(self, self'))
              => self'.reward = self.partial_gain + At(self, self.t)
        /\ (last'.op = "try_to_buy" /\ Closes(self, self'))
              => self'.reward = self.partial_gain - At(self, self.t) ]_vars

\* ---- the end of the series ----

\* C14: a step called when the next index is past the last price raises an
\* error; a step that returns advances t by exactly one; and t never exceeds
\* the length of the series, also after steps that failed.
TimeIndexWithinSeries ==
    [][ last'.op = "step" =>
          /\ ~InRange(self, self.t + 1) => last'.err # "none"
          /\ last'.err = "none" => self'.t = self.t + 1
          /\ self'.t <= Len(self'.signal) ]_vars

\* ---- construction ----

\* C15: the constructor returns an environment only for a valid
\* configuration: the series is not empty and p lies in [0, 1].
ConstructionRejectsInvalid ==
    (last.op = "init" /\ last.err = "none") =>
        /\ Len(self.signal) > 0
        /\ self.p >= 0 /\ self.p <= PDen

\* ---- the features ----

\* C16: after any calls, the object has the ema vector, the t and the price
\* observation signal[t] of an object built from the same series and decay
\* rates that took as many steps, all Neutral, and resolved no fill.
FeaturesIndependentOfAgent ==
    /\ self.ema = quiet.ema
    /\ self.t = quiet.t
    /\ InRange(self, self.t) => At(self, self.t) = At(quiet, quiet.t)

\* two steps on, the object has traded and holds a position, the other has not
TradedAndQuiet ==
    /\ Stepped /\ self.t >= WarmUp + 3
    /\ self.actual_position # Neutral /\ quiet.actual_position = Neutral
    /\ self.gain # 0 /\ quiet.gain = 0
    /\ self.ema[1].num # 0 /\ self.ema[Len(self.ema)].num # 0

\* ---- the reward ----

CloseOnlyAfterOpeningFill ==
    [][ /\ ( /\ last'.op = "try_to_sell" /\ self.open_sell
              /\ self.actual_position = Long /\ Closes(self, self') )
              => entry.filled
        /\ ( /\ last'.op = "try_to_buy" /\ self.open_buy
              /\ self.actual_position = Short /\ Closes(self, self') )
              => entry.filled ]_vars

\* C19: a fill-resolution call for a side that has no active order leaves
\* total gain, partial gain, the position and the reward as they were,
\* whatever the price of the tick and whatever np.random.rand() returns.
NoFillWithoutOrder ==
    InRange(self, self.t) =>
        \A rnd \in Rands :
            LET Same(s) == /\ s.gain = self.gain
                           /\ s.partial_gain = self.partial_gain
                           /\ s.actual_position = self.actual_position
                           /\ s.reward = self.reward
            IN  /\ ~self.open_buy => Same(try_to_buy(self, rnd))
                /\ ~self.open_sell => Same(try_to_sell(self, rnd))

\* C20: partial gain is 0 whenever the position is Neutral; in particular a
\* fill-resolution call on an active order, made in a state with partial gain
\* 0, does not end Neutral with a partial gain other than 0.
PartialGainScopedToPosition ==
    [][ ( /\ self.partial_gain = 0
          /\ \/ last'.op = "try_to_buy" /\ self.open_buy
             \/ last'.op = "try_to_sell" /\ self.open_sell )
        => (self'.actual_position = Neutral => self'.partial_gain = 0) ]_vars

TypeOK ==
    /\ self.actual_position \in Actions
    /\ self.open_buy \in BOOLEAN
    /\ self.open_sell \in BOOLEAN
    /\ self.t \in (WarmUp + 1)..(SigLen + MaxOver)
====
